---- MODULE Spec2Model ----
(***************************************************************************)
(* A model of the Universe of wasm_game_of_life (src/src/lib.rs): the grid *)
(* of cells, its setters, tick and render.                                 *)
(*                                                                         *)
(* A universe is the record [width, height, cells]; cells is the row-major *)
(* Vec<Cell>, a sequence over {Dead, Alive} = {0, 1}.  Rust indexes from   *)
(* 0, TLA+ sequences from 1: cell idx of the code is cells[idx + 1] here.  *)
(* All u32 products and sums of the model stay far below 2^32 under the    *)
(* bounds below, so the wrapping of u32 arithmetic never comes into play.  *)
(***************************************************************************)
EXTENDS Integers, Sequences, FiniteSets

VARIABLES
    width,      \* Universe.width
    height,     \* Universe.height
    cells,      \* Universe.cells
    op,         \* the operation that produced this state
    argN,       \* its u32 argument (set_width, set_height), else 0
    argL,       \* its list of (row, col) pairs (set_cells), else << >>
    pre,        \* the universe as it was before that operation
    gen,        \* the number of ticks since the last operation other than tick
    seed,       \* the cell buffer as it was when that run of ticks began
    out,        \* the String the operation returned (render), else << >>
    fault,      \* "none", or the panic that ended the operation
    scan        \* where a tick in progress stands: its loop variables and next

vars == <<width, height, cells, op, argN, argL, pre, gen, seed, out, fault,
          scan>>

----------------------------------------------------------------------------
(* Bounds of the exploration. *)

\* set_width and set_height are called with 0..MaxDim
MaxDim == 3
\* set_cells is called on the grids of at most MaxSeeded cells
MaxSeeded == 6
\* with lists of at most MaxList pairs
MaxList == 2
\* at most MaxGen ticks in a row
MaxGen == 2
\* SpecRaw starts from every buffer of every grid of at most MaxRaw cells
MaxRaw == 4
\* SpecGrid starts from every buffer of every grid of at most MaxCells cells
MaxCells == 9
\* and from the patterns on every grid of 4..MaxPat by 4..MaxPat
MaxPat == 6

----------------------------------------------------------------------------
(* enum Cell *)

Dead == 0
Alive == 1

(* Universe::new's dimensions *)
DefaultWidth == 64
DefaultHeight == 64

(* the glyphs of Display::fmt, named by their code points *)
DeadGlyph == "U+25FB"
AliveGlyph == "U+25FC"
LineBreak == "\n"

Universe == [width |-> width, height |-> height, cells |-> cells]

Min(a, b) == IF a < b THEN a ELSE b

----------------------------------------------------------------------------
(* Universe::get_index *)

get_index_transposed(u, row, col) == col * u.width + row

get_index(u, row, col) == row * u.width + col

----------------------------------------------------------------------------
(* Universe::live_neighbor_count *)

DeltaRows(u) == <<u.height - 1, 0, 1>>

DeltaColsFromHeight(u) == <<u.height - 1, 0, 1>>

DeltaCols(u) == <<u.width - 1, 0, 1>>

\* the index of the neighbour without the remainder by the width
NeighborIndexNoWrap(u, row, col, delta_row, delta_col) ==
    LET neighbor_row == (row + delta_row) % u.height
        neighbor_col == col + delta_col
    IN  get_index(u, neighbor_row, neighbor_col)

\* idx of the inner loop body
NeighborIndex(u, row, col, delta_row, delta_col) ==
    LET neighbor_row == (row + delta_row) % u.height
        neighbor_col == (col + delta_col) % u.width
    IN  get_index(u, neighbor_row, neighbor_col)

\* the inner loop body without its continue
NeighborTermNoSkip(u, row, col, delta_row, delta_col) ==
    u.cells[NeighborIndex(u, row, col, delta_row, delta_col) + 1]

\* what one pass of the inner loop body adds to count
NeighborTerm(u, row, col, delta_row, delta_col) ==
    IF delta_row = 0 /\ delta_col = 0
    THEN 0
    ELSE u.cells[NeighborIndex(u, row, col, delta_row, delta_col) + 1]

RECURSIVE CountCols(_, _, _, _, _)
CountCols(u, row, col, delta_row, j) ==
    IF j > 3
    THEN 0
    ELSE NeighborTerm(u, row, col, delta_row, DeltaCols(u)[j])
         + CountCols(u, row, col, delta_row, j + 1)

RECURSIVE CountRows(_, _, _, _)
CountRows(u, row, col, i) ==
    IF i > 3
    THEN 0
    ELSE CountCols(u, row, col, DeltaRows(u)[i], 1)
         + CountRows(u, row, col, i + 1)

\* defined for width > 0 and height > 0
live_neighbor_count(u, row, col) == CountRows(u, row, col, 1)

\* the panic of live_neighbor_count, if any: with a zero dimension,
\* dimension - 1 overflows (a panic in a debug build, a wrap in a release
\* build) and the remainder by the dimension then divides by zero
NeighborFault(u, row, col) ==
    IF u.width = 0 \/ u.height = 0
    THEN "arith"
    ELSE IF \E i, j \in 1..3 :
               /\ ~(DeltaRows(u)[i] = 0 /\ DeltaCols(u)[j] = 0)
               /\ NeighborIndex(u, row, col, DeltaRows(u)[i], DeltaCols(u)[j])
                      >= Len(u.cells)
         THEN "index"
         ELSE "none"

----------------------------------------------------------------------------
(* Universe::tick *)

\* the match of tick, arm by arm
next_cell_two_only(cell, live_neighbors) ==
    IF cell = Alive /\ live_neighbors < 2 THEN Dead
    ELSE IF cell = Alive /\ live_neighbors = 2 THEN Alive
    ELSE IF cell = Alive /\ live_neighbors > 2 THEN Dead
    ELSE IF cell = Dead /\ live_neighbors = 3 THEN Alive
    ELSE cell

next_cell_birth_up_to_three(cell, live_neighbors) ==
    IF cell = Alive /\ live_neighbors < 2 THEN Dead
    ELSE IF cell = Alive /\ (live_neighbors = 2 \/ live_neighbors = 3) THEN Alive
    ELSE IF cell = Alive /\ live_neighbors > 3 THEN Dead
    ELSE IF cell = Dead /\ live_neighbors <= 3 THEN Alive
    ELSE cell

next_cell(cell, live_neighbors) ==
    IF cell = Alive /\ live_neighbors < 2 THEN Dead
    ELSE IF cell = Alive /\ (live_neighbors = 2 \/ live_neighbors = 3) THEN Alive
    ELSE IF cell = Alive /\ live_neighbors > 3 THEN Dead
    ELSE IF cell = Dead /\ live_neighbors = 3 THEN Alive
    ELSE cell

\* the body of the inner loop at (row, col); acc is [next, fault]
TickCellInPlace(u, acc, row, col) ==
    LET idx == get_index(u, row, col)
        v   == [u EXCEPT !.cells = acc.next]
    IN  IF idx >= Len(u.cells)
        THEN [acc EXCEPT !.fault = "index"]
        ELSE IF NeighborFault(u, row, col) # "none"
        THEN [acc EXCEPT !.fault = NeighborFault(u, row, col)]
        ELSE [acc EXCEPT !.next[idx + 1] =
                  next_cell(v.cells[idx + 1], live_neighbor_count(v, row, col))]

TickCell(u, acc, row, col) ==
    LET idx == get_index(u, row, col)
    IN  IF idx >= Len(u.cells)
        THEN [acc EXCEPT !.fault = "index"]
        ELSE IF NeighborFault(u, row, col) # "none"
        THEN [acc EXCEPT !.fault = NeighborFault(u, row, col)]
        ELSE [acc EXCEPT !.next[idx + 1] =
                  next_cell(u.cells[idx + 1], live_neighbor_count(u, row, col))]

\* a loop over the columns that tests its bound after the body
RECURSIVE TickColsPostTest(_, _, _, _)
TickColsPostTest(u, acc, row, col) ==
    LET done == TickCell(u, acc, row, col)
    IN  IF done.fault # "none" \/ col + 1 >= u.width
        THEN done
        ELSE TickColsPostTest(u, done, row, col + 1)

\* for col in 0..self.width, from col on
RECURSIVE TickCols(_, _, _, _)
TickCols(u, acc, row, col) ==
    IF acc.fault # "none" \/ col >= u.width
    THEN acc
    ELSE TickCols(u, TickCell(u, acc, row, col), row, col + 1)

\* for row in 0..self.height, from row on
RECURSIVE TickRows(_, _, _)
TickRows(u, acc, row) ==
    IF acc.fault # "none" \/ row >= u.height
    THEN acc
    ELSE TickRows(u, TickCols(u, acc, row, 0), row + 1)

\* the outer loop begun at row 1
TickResultFromRowOne(u) == TickRows(u, [next |-> u.cells, fault |-> "none"], 1)

\* [next, fault]: the buffer tick has built, and the panic that stopped it
TickResult(u) == TickRows(u, [next |-> u.cells, fault |-> "none"], 0)

----------------------------------------------------------------------------
(* Universe::set_cells *)

\* the loop of set_cells with a check of each pair against the dimensions
RECURSIVE SetCellsLoopChecked(_, _, _, _)
SetCellsLoopChecked(u, acc, list, k) ==
    IF acc.fault # "none" \/ k > Len(list)
    THEN acc
    ELSE LET idx == get_index(u, list[k][1], list[k][2])
         IN  IF list[k][1] >= u.height \/ list[k][2] >= u.width
             THEN [acc EXCEPT !.fault = "index"]
             ELSE SetCellsLoopChecked(u, [acc EXCEPT !.cells[idx + 1] = Alive],
                                      list, k + 1)

\* the loop of set_cells from the k-th pair on; acc is [cells, fault]
RECURSIVE SetCellsLoop(_, _, _, _)
SetCellsLoop(u, acc, list, k) ==
    IF acc.fault # "none" \/ k > Len(list)
    THEN acc
    ELSE LET idx == get_index(u, list[k][1], list[k][2])
         IN  IF idx >= Len(acc.cells)
             THEN [acc EXCEPT !.fault = "index"]
             ELSE SetCellsLoop(u, [acc EXCEPT !.cells[idx + 1] = Alive],
                               list, k + 1)

SetCellsResult(u, list) ==
    SetCellsLoop(u, [cells |-> u.cells, fault |-> "none"], list, 1)

----------------------------------------------------------------------------
(* Universe::set_width, Universe::set_height *)

\* (0..n).map(|_| Cell::Dead).collect()
DeadCells(n) == [i \in 1..n |-> Dead]

SetWidthCellsStale(w) == DeadCells(width * height)

SetWidthCells(w) == DeadCells(w * height)

SetHeightCellsKept(h) ==
    [i \in 1..(width * h) |-> IF i <= Len(cells) THEN cells[i] ELSE Dead]

SetHeightCells(h) == DeadCells(width * h)

----------------------------------------------------------------------------
(* impl fmt::Display for Universe, Universe::render *)

\* slice::chunks(n), n > 0: pieces of n elements, the last one maybe shorter
RECURSIVE Chunks(_, _)
Chunks(s, n) ==
    IF Len(s) = 0
    THEN << >>
    ELSE <<SubSeq(s, 1, Min(n, Len(s)))>>
         \o Chunks(SubSeq(s, Min(n, Len(s)) + 1, Len(s)), n)

symbol_inverted(cell) == IF cell = Dead THEN AliveGlyph ELSE DeadGlyph

symbol(cell) == IF cell = Dead THEN DeadGlyph ELSE AliveGlyph

\* what the inner loop writes for one line
FmtLine(line) == [k \in 1..Len(line) |-> symbol(line[k])]

RECURSIVE FmtLines(_, _)
FmtLines(lines, k) ==
    IF k > Len(lines)
    THEN << >>
    ELSE FmtLine(lines[k]) \o <<LineBreak>> \o FmtLines(lines, k + 1)

\* to_string(): the characters written, in order; chunks(0) panics
fmt(u) == FmtLines(Chunks(u.cells, u.width), 1)

FmtFault(u) == IF u.width = 0 THEN "chunk" ELSE "none"

----------------------------------------------------------------------------
(* Universe::new *)

\* the seed with && in the place of ||
NewCellsBothDivide ==
    [k \in 1..(DefaultWidth * DefaultHeight) |->
        IF (k - 1) % 2 = 0 /\ (k - 1) % 7 = 0 THEN Alive ELSE Dead]

NewCells ==
    [k \in 1..(DefaultWidth * DefaultHeight) |->
        IF (k - 1) % 2 = 0 \/ (k - 1) % 7 = 0 THEN Alive ELSE Dead]

\* no tick is in progress
Idle == [active |-> FALSE, row |-> 0, col |-> 0, next |-> << >>]

Init ==
    /\ scan = Idle
    /\ width = DefaultWidth
    /\ height = DefaultHeight
    /\ cells = NewCells
    /\ op = "new"
    /\ argN = 0
    /\ argL = << >>
    /\ pre = [width |-> DefaultWidth, height |-> DefaultHeight, cells |-> NewCells]
    /\ gen = 0
    /\ seed = NewCells
    /\ out = << >>
    /\ fault = "none"

----------------------------------------------------------------------------
(* The operations.  A panic ends the run: no operation follows it. *)

\* set_width assigning the height as well
set_width_and_height(w) ==
    /\ fault = "none"
    /\ width' = w
    /\ height' = w
    /\ cells' = DeadCells(w * w)
    /\ op' = "set_width"
    /\ argN' = w
    /\ argL' = << >>
    /\ pre' = Universe
    /\ gen' = 0
    /\ seed' = cells'
    /\ out' = << >>
    /\ UNCHANGED <<fault, scan>>

set_width(w) ==
    /\ fault = "none"
    /\ width' = w
    /\ cells' = SetWidthCells(w)
    /\ op' = "set_width"
    /\ argN' = w
    /\ argL' = << >>
    /\ pre' = Universe
    /\ gen' = 0
    /\ seed' = cells'
    /\ out' = << >>
    /\ UNCHANGED <<height, fault, scan>>

set_height(h) ==
    /\ fault = "none"
    /\ height' = h
    /\ cells' = SetHeightCells(h)
    /\ op' = "set_height"
    /\ argN' = h
    /\ argL' = << >>
    /\ pre' = Universe
    /\ gen' = 0
    /\ seed' = cells'
    /\ out' = << >>
    /\ UNCHANGED <<width, fault, scan>>

\* the lists of at most MaxList in-bounds pairs
Coords == {<<row, col>> : row \in 0..(height - 1), col \in 0..(width - 1)}

CellLists == UNION {[1..n -> Coords] : n \in 0..MaxList}

set_cells(list) ==
    /\ fault = "none"
    /\ cells' = SetCellsResult(Universe, list).cells
    /\ fault' = SetCellsResult(Universe, list).fault
    /\ op' = "set_cells"
    /\ argN' = 0
    /\ argL' = list
    /\ pre' = Universe
    /\ gen' = 0
    /\ seed' = cells'
    /\ out' = << >>
    /\ UNCHANGED <<width, height, scan>>

\* self.cells = next is reached only when no cell panicked
tick ==
    /\ fault = "none"
    /\ gen < MaxGen
    /\ cells' = IF TickResult(Universe).fault = "none"
                THEN TickResult(Universe).next
                ELSE cells
    /\ fault' = TickResult(Universe).fault
    /\ op' = "tick"
    /\ argN' = 0
    /\ argL' = << >>
    /\ pre' = Universe
    /\ gen' = gen + 1
    /\ out' = << >>
    /\ UNCHANGED <<width, height, seed, scan>>

render ==
    /\ fault = "none"
    /\ out' = IF FmtFault(Universe) = "none" THEN fmt(Universe) ELSE << >>
    /\ fault' = FmtFault(Universe)
    /\ op' = "render"
    /\ argN' = 0
    /\ argL' = << >>
    /\ pre' = Universe
    /\ UNCHANGED <<width, height, cells, gen, seed, scan>>

Next ==
    \/ \E w \in 0..MaxDim : set_width(w)
    \/ \E h \in 0..MaxDim : set_height(h)
    \/ /\ width * height <= MaxSeeded
       /\ \E list \in CellLists : set_cells(list)
    \/ tick
    \/ render

Spec == Init /\ [][Next]_vars

----------------------------------------------------------------------------
(* The grids tick is checked on: every grid below is one that set_width,  *)
(* set_height and set_cells build, as Spec shows for the small ones.      *)

\* the buffer of a w by h grid whose Alive cells are those at the pairs of S
CellsOf(w, h, S) ==
    [k \in 1..(w * h) |->
        IF <<(k - 1) \div w, (k - 1) % w>> \in S THEN Alive ELSE Dead]

\* a 2x2 block with its top left cell at (r, c), wrapped
BlockAt(w, h, r, c) ==
    CellsOf(w, h, {<<r, c>>, <<r, (c + 1) % w>>,
                   <<(r + 1) % h, c>>, <<(r + 1) % h, (c + 1) % w>>})

\* three cells in a row, centred at (r, c), wrapped
HorizontalAt(w, h, r, c) ==
    CellsOf(w, h, {<<r, (c + w - 1) % w>>, <<r, c>>, <<r, (c + 1) % w>>})

\* three cells in a column, centred at (r, c), wrapped
VerticalAt(w, h, r, c) ==
    CellsOf(w, h, {<<(r + h - 1) % h, c>>, <<r, c>>, <<(r + 1) % h, c>>})

\* a cell and its four orthogonal neighbours, centred at (r, c), wrapped
PlusAt(w, h, r, c) ==
    CellsOf(w, h, {<<r, c>>, <<r, (c + w - 1) % w>>, <<r, (c + 1) % w>>,
                   <<(r + h - 1) % h, c>>, <<(r + 1) % h, c>>})

StartGrid(w, h, cs) ==
    /\ scan = Idle
    /\ width = w
    /\ height = h
    /\ cells = cs
    /\ op = "grid"
    /\ argN = 0
    /\ argL = << >>
    /\ pre = [width |-> w, height |-> h, cells |-> cs]
    /\ gen = 0
    /\ seed = cs
    /\ out = << >>
    /\ fault = "none"

InitGrid ==
    \/ \E w, h \in 1..MaxCells :
          /\ w * h <= MaxCells
          /\ \E cs \in [1..(w * h) -> {Dead, Alive}] : StartGrid(w, h, cs)
    \/ \E w, h \in 4..MaxPat :
          \E r \in 0..(h - 1), c \in 0..(w - 1) :
             \E cs \in {DeadCells(w * h), BlockAt(w, h, r, c),
                        HorizontalAt(w, h, r, c), PlusAt(w, h, r, c)} :
                StartGrid(w, h, cs)

\* the grids a shift is applied to: every buffer of every grid of at most
\* MaxCells cells, and one line and one plus on every grid of 4..MaxPat by
\* 4..MaxPat (the shifts move them to every position)
InitShift ==
    \/ \E w, h \in 1..MaxCells :
          /\ w * h <= MaxCells
          /\ \E cs \in [1..(w * h) -> {Dead, Alive}] : StartGrid(w, h, cs)
    \/ \E w, h \in 4..MaxPat :
          \E cs \in {HorizontalAt(w, h, 0, 0), PlusAt(w, h, 0, 0)} :
             StartGrid(w, h, cs)

NextShift == tick

SpecShift == InitShift /\ [][NextShift]_vars

\* set_cells called once with pairs that may lie outside the grid: a row
\* up to height, a column up to width + 1
RawCoords == {<<row, col>> : row \in 0..height, col \in 0..(width + 1)}

RawLists == UNION {[1..n -> RawCoords] : n \in 0..MaxList}

InitRaw ==
    \E w, h \in 1..MaxRaw :
        /\ w * h <= MaxRaw
        /\ \E cs \in [1..(w * h) -> {Dead, Alive}] : StartGrid(w, h, cs)

NextRaw ==
    /\ op = "grid"
    /\ \E list \in RawLists : set_cells(list)

SpecRaw == InitRaw /\ [][NextRaw]_vars

NextGrid == tick

SpecGrid == InitGrid /\ [][NextGrid]_vars

----------------------------------------------------------------------------
(* tick, one pass of a loop at a time.  tick runs to its end once begun:   *)
(* it holds &mut self, so no other operation comes in between.             *)

\* the inner loop body with its write landing in self.cells
ScanBodyInPlace(u, sc) ==
    LET acc == TickCell(u, [next |-> sc.next, fault |-> "none"], sc.row, sc.col)
    IN  [cells |-> acc.next, acc |-> acc]

\* the inner loop body at (sc.row, sc.col): self.cells as it leaves it, and
\* [next, fault]
ScanBody(u, sc) ==
    [cells |-> u.cells,
     acc   |-> TickCell(u, [next |-> sc.next, fault |-> "none"], sc.row, sc.col)]

\* let mut next = self.cells.clone(), and the loops are entered
TickBegin ==
    /\ fault = "none"
    /\ ~scan.active
    /\ gen < MaxGen
    /\ scan' = [active |-> TRUE, row |-> 0, col |-> 0, next |-> cells]
    /\ op' = "ticking"
    /\ argN' = 0
    /\ argL' = << >>
    /\ pre' = Universe
    /\ out' = << >>
    /\ UNCHANGED <<width, height, cells, gen, seed, fault>>

\* one pass of the inner loop
TickStep ==
    /\ fault = "none"
    /\ scan.active
    /\ scan.row < height
    /\ scan.col < width
    /\ cells' = ScanBody(Universe, scan).cells
    /\ fault' = ScanBody(Universe, scan).acc.fault
    /\ scan' = [scan EXCEPT !.next = ScanBody(Universe, scan).acc.next,
                            !.col = scan.col + 1]
    /\ UNCHANGED <<width, height, op, argN, argL, pre, gen, seed, out>>

\* the inner loop ends, the outer loop goes on to the next row
TickNextRow ==
    /\ fault = "none"
    /\ scan.active
    /\ scan.row < height
    /\ scan.col >= width
    /\ scan' = [scan EXCEPT !.row = scan.row + 1, !.col = 0]
    /\ UNCHANGED <<width, height, cells, op, argN, argL, pre, gen, seed, out,
                   fault>>

\* the outer loop ends: self.cells = next
TickEnd ==
    /\ fault = "none"
    /\ scan.active
    /\ scan.row >= height
    /\ cells' = scan.next
    /\ scan' = Idle
    /\ op' = "tick"
    /\ gen' = gen + 1
    /\ UNCHANGED <<width, height, argN, argL, pre, seed, out, fault>>

InitStep ==
    \E w, h \in 1..MaxSeeded :
        /\ w * h <= MaxSeeded
        /\ \E cs \in [1..(w * h) -> {Dead, Alive}] : StartGrid(w, h, cs)

NextStep ==
    \/ TickBegin
    \/ TickStep
    \/ TickNextRow
    \/ TickEnd

SpecStep == InitStep /\ [][NextStep]_vars

----------------------------------------------------------------------------
(* What the claims are stated with. *)

AllDead(cs) == \A k \in 1..Len(cs) : cs[k] = Dead

SomeAlive(cs) == \E k \in 1..Len(cs) : cs[k] = Alive

\* the cell at (row, col) of a buffer of a grid w wide
CellAt(cs, w, row, col) == cs[row * w + col + 1]

\* the eight delta pairs of the Moore neighbourhood
MooreDeltas ==
    {<<dr, dc>> : dr \in {-1, 0, 1}, dc \in {-1, 0, 1}} \ {<<0, 0>>}

\* the sum over the delta pairs of D of the cell at
\* ((row + dr) mod height, (col + dc) mod width), Alive as 1 and Dead as 0
RECURSIVE ToroidalSum(_, _, _, _)
ToroidalSum(u, row, col, D) ==
    IF D = {}
    THEN 0
    ELSE LET d == CHOOSE x \in D : TRUE
         IN  CellAt(u.cells, u.width,
                    (row + d[1]) % u.height, (col + d[2]) % u.width)
             + ToroidalSum(u, row, col, D \ {d})

----------------------------------------------------------------------------
\* C1: one tick of a grid with width > 0 and height > 0 sets every cell
\* (row, col) to what the rule table gives for that cell's state and its
\* live-neighbour count in the buffer as it was before the tick: Alive with
\* fewer than 2 becomes Dead, Alive with 2 or 3 stays Alive, Alive with more
\* than 3 becomes Dead, Dead with exactly 3 becomes Alive, every other cell
\* keeps its state; nothing is read from the buffer being written.
C1_TickAppliesRuleTable ==
    (op = "tick" /\ pre.width > 0 /\ pre.height > 0) =>
        /\ fault = "none"
        /\ Len(cells) = Len(pre.cells)
        /\ \A row \in 0..(height - 1), col \in 0..(width - 1) :
              LET was == CellAt(pre.cells, width, row, col)
                  n   == live_neighbor_count(pre, row, col)
                  now == CellAt(cells, width, row, col)
              IN  /\ (was = Alive /\ n < 2) => now = Dead
                  /\ (was = Alive /\ n \in {2, 3}) => now = Alive
                  /\ (was = Alive /\ n > 3) => now = Dead
                  /\ (was = Dead /\ n = 3) => now = Alive
                  /\ (was = Dead /\ n # 3) => now = Dead

\* a tick in which a cell died of overpopulation, a cell was born, a cell
\* survived and a Dead cell stayed Dead
C1_Witness ==
    /\ op = "tick"
    /\ fault = "none"
    /\ \E row \in 0..(height - 1), col \in 0..(width - 1) :
          /\ CellAt(pre.cells, width, row, col) = Dead
          /\ live_neighbor_count(pre, row, col) # 3
          /\ CellAt(cells, width, row, col) = Dead
    /\ \E row \in 0..(height - 1), col \in 0..(width - 1) :
          /\ CellAt(pre.cells, width, row, col) = Alive
          /\ live_neighbor_count(pre, row, col) > 3
          /\ CellAt(cells, width, row, col) = Dead
    /\ \E row \in 0..(height - 1), col \in 0..(width - 1) :
          /\ CellAt(pre.cells, width, row, col) = Dead
          /\ live_neighbor_count(pre, row, col) = 3
          /\ CellAt(cells, width, row, col) = Alive
    /\ \E row \in 0..(height - 1), col \in 0..(width - 1) :
          /\ CellAt(pre.cells, width, row, col) = Alive
          /\ live_neighbor_count(pre, row, col) \in {2, 3}
          /\ CellAt(cells, width, row, col) = Alive

----------------------------------------------------------------------------
\* C7: stasis: on a grid with width > 0 and height > 0 whose cells are all
\* Dead, the cells are all Dead after any number of ticks.
C7_Stasis ==
    (op = "tick" /\ width > 0 /\ height > 0 /\ AllDead(seed)) =>
        (fault = "none" /\ Len(cells) = width * height /\ AllDead(cells))

\* an all-Dead grid that has been ticked more than once
C7_Witness ==
    /\ op = "tick"
    /\ gen >= 2
    /\ width > 1
    /\ height > 1
    /\ AllDead(seed)
    /\ AllDead(cells)

----------------------------------------------------------------------------
\* C8: still life: on a grid with width >= 4 and height >= 4 whose only
\* Alive cells are a 2x2 block, at any position, wrapped ones included, tick
\* leaves the cell buffer unchanged.
C8_BlockIsStill ==
    (op = "tick" /\ width >= 4 /\ height >= 4) =>
        \A r \in 0..(height - 1), c \in 0..(width - 1) :
            pre.cells = BlockAt(width, height, r, c) =>
                (fault = "none" /\ cells = pre.cells)

\* the tick of a block that straddles both wrapped edges
C8_Witness ==
    /\ op = "tick"
    /\ width >= 4
    /\ height >= 4
    /\ width # height
    /\ pre.cells = BlockAt(width, height, height - 1, width - 1)
    /\ cells = pre.cells

----------------------------------------------------------------------------
\* C9: blinker: on a grid with width >= 5 and height >= 5 whose only Alive
\* cells are (r, c-1), (r, c), (r, c+1), one tick leaves exactly (r-1, c),
\* (r, c), (r+1, c) Alive, coordinates modulo the dimensions, and a second
\* tick restores exactly the horizontal line.
C9_Blinker ==
    (op = "tick" /\ width >= 5 /\ height >= 5) =>
        \A r \in 0..(height - 1), c \in 0..(width - 1) :
            seed = HorizontalAt(width, height, r, c) =>
                /\ fault = "none"
                /\ (gen = 1 => cells = VerticalAt(width, height, r, c))
                /\ (gen = 2 => cells = HorizontalAt(width, height, r, c))

\* the second tick of a line that wraps around the left and the top edge
C9_Witness ==
    /\ op = "tick"
    /\ gen = 2
    /\ width >= 5
    /\ height >= 5
    /\ width # height
    /\ seed = HorizontalAt(width, height, 0, 0)
    /\ pre.cells = VerticalAt(width, height, 0, 0)
    /\ cells = seed

----------------------------------------------------------------------------
\* C2: in every state reached from new by set_width, set_height, set_cells
\* with in-bounds coordinates and tick, the length of cells is
\* width * height.
C2_LengthIsWidthTimesHeight == Len(cells) = width * height

\* a non-square grid that was resized, seeded and ticked
C2_Witness ==
    /\ op = "tick"
    /\ width = 2
    /\ height = 1
    /\ Len(cells) = 2
    /\ SomeAlive(pre.cells)

----------------------------------------------------------------------------
\* C3: on a grid with width > 0 and height > 0, live_neighbor_count of every
\* in-bounds (row, col) is the sum, over the eight delta pairs of
\* {-1, 0, 1} x {-1, 0, 1} other than (0, 0), of the cell at
\* ((row + dr) mod height, (col + dc) mod width), Alive as 1 and Dead as 0;
\* the cell at (0, 0) counts the cell at (height-1, width-1); the result is
\* between 0 and 8.
C3_ToroidalCount ==
    (fault = "none" /\ width > 0 /\ height > 0) =>
        \A row \in 0..(height - 1), col \in 0..(width - 1) :
            /\ live_neighbor_count(Universe, row, col)
                   = ToroidalSum(Universe, row, col, MooreDeltas)
            /\ live_neighbor_count(Universe, row, col) \in 0..8

----------------------------------------------------------------------------
\* C4, as amended: with width or height zero, tick computes no cell: it
\* panics nowhere, and leaves the dimensions and the empty buffer as they
\* were.
C4_TickOfEmptyGridDoesNothing ==
    (op = "tick" /\ (pre.width = 0 \/ pre.height = 0)) =>
        /\ fault = "none"
        /\ cells = << >>
        /\ cells = pre.cells
        /\ width = pre.width
        /\ height = pre.height

\* C4, as claimed: with width or height zero, tick ends in an arithmetic
\* fault (a division or a remainder by zero) of the neighbour-index
\* computation.
C4_TickOfEmptyGridFaults ==
    (op = "tick" /\ (pre.width = 0 \/ pre.height = 0)) => fault = "arith"

\* a tick after set_width(0), on a grid that still has rows
C4_Witness ==
    /\ op = "tick"
    /\ pre.width = 0
    /\ pre.height > 0

----------------------------------------------------------------------------
\* C5: after set_width(w) or set_height(h), whatever the cells were, every
\* cell is Dead and the grid has the new dimension.
C5_SettersResetToDead ==
    /\ op = "set_width" =>
          /\ width = argN
          /\ Len(cells) = argN * height
          /\ AllDead(cells)
    /\ op = "set_height" =>
          /\ height = argN
          /\ Len(cells) = width * argN
          /\ AllDead(cells)

\* set_height on a grid that had an Alive cell, the buffer growing
C5_Witness ==
    /\ op = "set_height"
    /\ argN > pre.height
    /\ pre.height > 0
    /\ width > 0
    /\ width < DefaultWidth
    /\ SomeAlive(pre.cells)

----------------------------------------------------------------------------
\* C6: set_cells, given pairs (row, col) with row < height and col < width,
\* leaves the cell at row * width + col Alive for every listed pair and every
\* cell not listed as it was.
C6_SetCellsFrame ==
    (/\ op = "set_cells"
     /\ \A k \in 1..Len(argL) : argL[k][1] < height /\ argL[k][2] < width) =>
        /\ fault = "none"
        /\ Len(cells) = Len(pre.cells)
        /\ \A k \in 1..Len(argL) :
              cells[argL[k][1] * width + argL[k][2] + 1] = Alive
        /\ \A row \in 0..(height - 1), col \in 0..(width - 1) :
              (\A k \in 1..Len(argL) : argL[k] # <<row, col>>) =>
                  CellAt(cells, width, row, col)
                      = CellAt(pre.cells, width, row, col)

\* set_cells of two different pairs on a non-square grid that had an Alive
\* cell the list does not name, a Dead cell being left
C6_Witness ==
    /\ op = "set_cells"
    /\ width > 1
    /\ height > 1
    /\ width # height
    /\ Len(argL) = 2
    /\ argL[1] # argL[2]
    /\ \E row \in 0..(height - 1), col \in 0..(width - 1) :
          /\ argL[1] # <<row, col>>
          /\ argL[2] # <<row, col>>
          /\ CellAt(pre.cells, width, row, col) = Alive
          /\ CellAt(cells, width, row, col) = Alive
    /\ ~AllDead(cells)
    /\ \E k \in 1..Len(cells) : cells[k] = Dead

----------------------------------------------------------------------------
\* C10: for a grid with width > 0, render returns exactly height lines, each
\* of exactly width glyphs followed by a line break; the glyph at line r,
\* position c is the Alive glyph if and only if the cell at r * width + c is
\* Alive, and the Dead glyph otherwise.
C10_RenderIsTheGrid ==
    (op = "render" /\ width > 0) =>
        /\ fault = "none"
        /\ Len(out) = height * (width + 1)
        /\ \A r \in 0..(height - 1) :
              /\ out[r * (width + 1) + width + 1] = LineBreak
              /\ \A c \in 0..(width - 1) :
                    LET glyph == out[r * (width + 1) + c + 1]
                    IN  /\ glyph \in {AliveGlyph, DeadGlyph}
                        /\ glyph = AliveGlyph <=> cells[r * width + c + 1] = Alive

\* the rendering of a non-square grid with an Alive and a Dead cell
C10_Witness ==
    /\ op = "render"
    /\ fault = "none"
    /\ width > 1
    /\ height > 0
    /\ width # height
    /\ SomeAlive(cells)
    /\ ~AllDead(pre.cells)
    /\ \E k \in 1..Len(cells) : cells[k] = Dead
    /\ Len(out) = height * (width + 1)

----------------------------------------------------------------------------
\* C12: new returns a grid with width 64 and height 64 whose 4096 cells
\* satisfy, for every linear index i in 0..4095: cell i is Alive if and only
\* if i mod 2 = 0 or i mod 7 = 0.
C12_NewSeedsByIndex ==
    op = "new" =>
        /\ width = 64
        /\ height = 64
        /\ Len(cells) = 4096
        /\ \A i \in 0..4095 :
              cells[i + 1] = Alive <=> (i % 2 = 0 \/ i % 7 = 0)
        /\ \A i \in 0..4095 : cells[i + 1] \in {Dead, Alive}

\* the grid as new left it: index 7 Alive (odd, a multiple of 7), the last
\* index 4095 Alive (7 * 585), index 1 and index 4093 Dead
C12_Witness ==
    /\ op = "new"
    /\ fault = "none"
    /\ cells[7 + 1] = Alive
    /\ cells[4095 + 1] = Alive
    /\ cells[1 + 1] = Dead
    /\ cells[4093 + 1] = Dead

----------------------------------------------------------------------------
\* the universe u with only its cell (row, col) flipped
Flipped(u, row, col) ==
    [u EXCEPT !.cells[row * u.width + col + 1] = IF @ = Alive THEN Dead ELSE Alive]

\* flipping only the cell (row, col) leaves its own count as it was
OwnStateUncounted(u) ==
    \A row \in 0..(u.height - 1), col \in 0..(u.width - 1) :
        live_neighbor_count(Flipped(u, row, col), row, col)
            = live_neighbor_count(u, row, col)

\* C13, as amended: on a grid with width >= 2 and height >= 2, the state of
\* the cell (row, col) does not contribute to live_neighbor_count(row, col):
\* flipping only that cell leaves the count unchanged.
C13_OwnStateUncountedFromTwo ==
    (fault = "none" /\ width >= 2 /\ height >= 2) => OwnStateUncounted(Universe)

\* C13, as claimed: on every grid with width > 0 and height > 0, width = 1
\* and height = 1 included, flipping only the cell (row, col) leaves
\* live_neighbor_count(row, col) unchanged.
C13_OwnStateUncounted ==
    (fault = "none" /\ width > 0 /\ height > 0) => OwnStateUncounted(Universe)

\* a seeded grid of two columns in which an Alive cell has Alive neighbours
C13_Witness ==
    /\ op = "set_cells"
    /\ width = 2
    /\ height >= 2
    /\ \E row \in 0..(height - 1), col \in 0..(width - 1) :
          /\ CellAt(cells, width, row, col) = Alive
          /\ live_neighbor_count(Universe, row, col) > 0
          /\ live_neighbor_count(Flipped(Universe, row, col), row, col)
                 = live_neighbor_count(Universe, row, col)

----------------------------------------------------------------------------
\* the generation after that of the universe u, cell by cell
NewGeneration(u) ==
    [k \in 1..Len(u.cells) |->
        next_cell(u.cells[k],
                  live_neighbor_count(u, (k - 1) \div u.width, (k - 1) % u.width))]

\* C14: while tick scans the grid cell by cell, the grid's cell buffer stays
\* the pre-tick generation and the writes go to the separate next buffer
\* (new values at the cells scanned so far, the old ones elsewhere); the
\* cell buffer changes once, when every cell has been computed, so it is
\* always the complete old generation or the complete new one.
C14_TickReplacesAtOnce ==
    /\ scan.active =>
          /\ cells = pre.cells
          /\ Len(scan.next) = Len(cells)
          /\ \A k \in 1..Len(cells) :
                scan.next[k] = IF k - 1 < scan.row * width + scan.col
                               THEN NewGeneration(pre)[k]
                               ELSE pre.cells[k]
    /\ (op = "tick" /\ ~scan.active) => cells = NewGeneration(pre)
    /\ cells = pre.cells \/ cells = NewGeneration(pre)

\* a scan past its first row whose next buffer already differs from the
\* cell buffer, in a cell the scan has passed
C14_Witness ==
    /\ scan.active
    /\ scan.row >= 1
    /\ scan.col >= 1
    /\ width >= 2
    /\ cells = pre.cells
    /\ scan.next[1] # cells[1]
    /\ NewGeneration(pre) # pre.cells

----------------------------------------------------------------------------
\* C15: in every state reached by new, set_width, set_height, in-bounds
\* set_cells and tick with width > 0 and height > 0, every index that tick
\* and live_neighbor_count use to read or write the cell buffer is less
\* than the buffer's length: no tick ends in an out-of-bounds access.
C15_TickIndicesInBounds ==
    /\ (fault = "none" /\ width > 0 /\ height > 0) =>
          \A row \in 0..(height - 1), col \in 0..(width - 1) :
              /\ get_index(Universe, row, col) \in 0..(Len(cells) - 1)
              /\ \A i, j \in 1..3 :
                    NeighborIndex(Universe, row, col,
                                  DeltaRows(Universe)[i], DeltaCols(Universe)[j])
                        \in 0..(Len(cells) - 1)
    /\ (op = "tick" /\ pre.width > 0 /\ pre.height > 0) => fault = "none"

\* a tick of a seeded non-square grid, where the neighbour below and to the
\* right of the last cell is the first cell
C15_Witness ==
    /\ op = "tick"
    /\ fault = "none"
    /\ width = 3
    /\ height = 2
    /\ SomeAlive(pre.cells)
    /\ NeighborIndex(pre, 1, 2, 1, 1) = 0
    /\ NeighborIndex(pre, 0, 0, DeltaRows(pre)[1], DeltaCols(pre)[1])
           = Len(cells) - 1

----------------------------------------------------------------------------
\* the universe u with all its cells shifted by (a, b), wrapped: the cell at
\* (row, col) goes to ((row + a) mod height, (col + b) mod width)
Shifted(u, a, b) ==
    [u EXCEPT !.cells =
        [k \in 1..Len(u.cells) |->
            LET row == (k - 1) \div u.width
                col == (k - 1) % u.width
            IN  CellAt(u.cells, u.width,
                       (row + u.height - a) % u.height,
                       (col + u.width - b) % u.width)]]

\* C16: tick commutes with toroidal translation: on a grid with width > 0
\* and height > 0, for every shift (a, b), shifting all cells by (a, b) and
\* then ticking gives the buffer that ticking and then shifting by (a, b)
\* gives.
C16_TickCommutesWithShift ==
    (op = "tick" /\ width > 0 /\ height > 0) =>
        \A a \in 0..(height - 1), b \in 0..(width - 1) :
            LET ticked == TickResult(Shifted(pre, a, b))
            IN  /\ ticked.fault = "none"
                /\ ticked.next = Shifted(Universe, a, b).cells

\* the tick of a non-square grid that the tick changes and that a shift by
\* (1, 1) changes, before the tick and after it
C16_Witness ==
    /\ op = "tick"
    /\ fault = "none"
    /\ width > 1
    /\ height > 1
    /\ width # height
    /\ cells # pre.cells
    /\ Shifted(pre, 1, 1).cells # pre.cells
    /\ Shifted(Universe, 1, 1).cells # cells
    /\ TickResult(Shifted(pre, 1, 1)).next = Shifted(Universe, 1, 1).cells

----------------------------------------------------------------------------
\* C17: the dimensions change only through their own setter: tick,
\* set_cells and render leave width and height unchanged, set_width leaves
\* height unchanged, set_height leaves width unchanged.
C17_DimensionsFrame ==
    /\ op \in {"tick", "set_cells", "render"} =>
          (width = pre.width /\ height = pre.height)
    /\ op = "set_width" => height = pre.height
    /\ op = "set_height" => width = pre.width

\* set_width to a new width that differs from the height, after the height
\* was set
C17_Witness ==
    /\ op = "set_width"
    /\ width = argN
    /\ argN # pre.width
    /\ argN # pre.height
    /\ pre.height # DefaultHeight
    /\ height = pre.height

----------------------------------------------------------------------------
\* the linear index of the k-th pair of the list set_cells was given
ListedIndex(k) == argL[k][1] * width + argL[k][2]

\* the pairs whose linear index is not one of the buffer
FaultingPairs == {k \in 1..Len(argL) : ListedIndex(k) >= width * height}

\* the number of pairs before the first faulting one
AppliedPairs ==
    IF FaultingPairs = {}
    THEN Len(argL)
    ELSE (CHOOSE k \in FaultingPairs : \A j \in FaultingPairs : k <= j) - 1

\* C18: set_cells checks no coordinate: a pair (row, col) with col >= width
\* whose linear index row * width + col is less than width * height raises
\* no error and sets Alive the cell at that linear index, which is the cell
\* at row + (col div width), column col mod width; only a linear index
\* >= width * height faults, and the pairs before the faulting one have been
\* applied by then.
C18_SetCellsChecksNoCoordinate ==
    op = "set_cells" =>
        /\ fault = IF FaultingPairs = {} THEN "none" ELSE "index"
        /\ Len(cells) = Len(pre.cells)
        /\ \A i \in 0..(Len(cells) - 1) :
              cells[i + 1] = IF \E k \in 1..AppliedPairs : ListedIndex(k) = i
                             THEN Alive
                             ELSE pre.cells[i + 1]
        /\ \A k \in 1..AppliedPairs :
              argL[k][2] >= width =>
                  /\ argL[k][1] + (argL[k][2] \div width) < height
                  /\ CellAt(cells, width, argL[k][1] + (argL[k][2] \div width),
                            argL[k][2] % width) = Alive

\* a list of two pairs: the first, with its column past the width, has
\* turned a Dead cell of the next row Alive; the second has faulted
C18_Witness ==
    /\ op = "set_cells"
    /\ fault = "index"
    /\ Len(argL) = 2
    /\ argL[1][2] >= width
    /\ argL[1][1] < height
    /\ ListedIndex(1) < width * height
    /\ pre.cells[ListedIndex(1) + 1] = Dead
    /\ cells[ListedIndex(1) + 1] = Alive
    /\ ListedIndex(2) >= width * height

====
